---- MODULE Spec2Model ----
(***************************************************************************)
(* A model of ethers-providers' Provider (src/ethers-providers/src/        *)
(* provider.rs): the request dispatcher, send_transaction, the two-hop ENS *)
(* resolution, get_storage_at's hex post-processing, signing, the pending  *)
(* transaction poll loop, filter watchers and subscription streams.        *)
(*                                                                         *)
(* Every caller is a task with its own record: the operation it runs, the  *)
(* await point it is suspended at, its local copy of the transaction, and  *)
(* the trace of transport events (requests, responses, sleeps) of the call *)
(* in progress.  The transport is external: at every await point it        *)
(* answers with any value of the method's response set or with an error.   *)
(* The node behind the transport keeps the installed filters and the       *)
(* active subscriptions.                                                   *)
(***************************************************************************)
EXTENDS Integers, Sequences, FiniteSets, TLC

VARIABLES provider, shared, task, server

vars == <<provider, shared, task, server>>

(***************************************************************************)
(* Values                                                                  *)
(***************************************************************************)
None == [tag |-> "None"]
Some(v) == [tag |-> "Some", val |-> v]

Ok(v) == [tag |-> "Ok", val |-> v]
Err(e) == [tag |-> "Err", err |-> e]

IsOk(r) == r.tag = "Ok"
IsErr(r) == r.tag = "Err"

\* NameOrAddress
Name(n) == [tag |-> "Name", name |-> n]
Address(a) == [tag |-> "Address", addr |-> a]

\* Address::zero()
ZeroAddress == 0

\* ens::ENS_ADDRESS, the well-known registry
ENS_ADDRESS == 9

\* ens::ADDR_SELECTOR / ens::NAME_SELECTOR and the registry's resolver(bytes32)
ADDR_SELECTOR == "addr"
NAME_SELECTOR == "name"
RESOLVER_SELECTOR == "resolver"

\* stream::DEFAULT_POLL_INTERVAL, in seconds
DEFAULT_POLL_INTERVAL == 7

\* ProviderError
JsonRpcClientError(e) == [kind |-> "JsonRpcClientError", inner |-> e]
EnsError(n) == [kind |-> "EnsError", name |-> n]
HexError(e) == [kind |-> "HexError", inner |-> e]
CustomError(e) == [kind |-> "CustomError", inner |-> e]

(***************************************************************************)
(* The bounded universe the callers and the transport draw from            *)
(***************************************************************************)
Tasks == {"t1", "t2"}
\* the callers that run in the sequential specification
SeqTasks == {"t1"}

Accounts == {1, 2}
EnsOverrides == {8}
Intervals == {1}
EnsNames == {"alice.eth"}
GasVals == {21000}
Hashes == {"h1", "h2"}
TransportErrors == {"connection refused"}

(***************************************************************************)
(* Hex text.  A text is a sequence of one-character strings.               *)
(***************************************************************************)
HexChars == <<"0", "1", "2", "3", "4", "5", "6", "7", "8", "9",
              "a", "b", "c", "d", "e", "f">>
HexCharsUpper == <<"0", "1", "2", "3", "4", "5", "6", "7", "8", "9",
                   "A", "B", "C", "D", "E", "F">>

IsHexChar(c) == \E i \in 1..16 : HexChars[i] = c \/ HexCharsUpper[i] = c

\* the value of one hex digit (hex crate's val())
HexVal(c) == (CHOOSE i \in 1..16 : HexChars[i] = c \/ HexCharsUpper[i] = c) - 1

\* str::replace("0x", ""): every non-overlapping match, left to right
RECURSIVE replace_0x(_)
replace_0x(s) ==
    IF Len(s) < 2 THEN s
    ELSE IF s[1] = "0" /\ s[2] = "x" THEN replace_0x(SubSeq(s, 3, Len(s)))
    ELSE <<s[1]>> \o replace_0x(Tail(s))

\* the width of format!("{:0>64}", ..)
PadWidth == 64

pad_left_None(s) == s
\* format!("{:0>64}", s): left-pad with '0' up to the width, longer text is kept
pad_left(s) ==
    IF Len(s) >= PadWidth THEN s
    ELSE [i \in 1..PadWidth |->
            IF i <= PadWidth - Len(s) THEN "0" ELSE s[i - (PadWidth - Len(s))]]

\* Vec::<u8>::from_hex: odd length and non-hex characters are FromHexError
from_hex(s) ==
    IF Len(s) % 2 # 0 THEN Err(HexError("OddLength"))
    ELSE IF \E i \in 1..Len(s) : ~IsHexChar(s[i])
         THEN Err(HexError("InvalidHexCharacter"))
    ELSE Ok([i \in 1..(Len(s) \div 2) |->
                16 * HexVal(s[2 * i - 1]) + HexVal(s[2 * i])])

\* the byte length of H256
H256Len == 32

\* H256::from_slice asserts the slice is exactly 32 bytes long
H256_from_slice(bytes) ==
    IF Len(bytes) = H256Len THEN Ok(bytes)
    ELSE [tag |-> "Panic", msg |-> "assertion failed: src.len() == 32"]

\* get_storage_at, from the returned text to its result
storage_value(text) ==
    LET value == pad_left(replace_0x(text))
        bytes == from_hex(value)
    IN IF IsErr(bytes) THEN bytes ELSE H256_from_slice(bytes.val)

\* str::strip_prefix("0x").unwrap_or(&sig): one leading "0x" is removed
strip_prefix_0x(s) ==
    IF Len(s) >= 2 /\ s[1] = "0" /\ s[2] = "x" THEN SubSeq(s, 3, Len(s)) ELSE s

\* hex::decode: odd length and non-hex characters are FromHexError
hex_decode(s) == from_hex(s)

\* the byte length of a Signature: r, s and v
SignatureLen == 65

\* Signature::try_from(&[u8]): exactly 65 bytes, r then s then v
Signature_try_from(bytes) ==
    IF Len(bytes) # SignatureLen
    THEN Err([error |-> "InvalidLength", expected |-> SignatureLen, got |-> Len(bytes)])
    ELSE Ok([r |-> SubSeq(bytes, 1, H256Len),
             s |-> SubSeq(bytes, H256Len + 1, 2 * H256Len),
             v |-> bytes[SignatureLen]])

\* sign, lines 344-345: map_err(|e| ProviderError::CustomError(e.to_string()))
signature_error_AsHexError(e) == HexError(e)
signature_error(e) == CustomError(e)

\* sign, lines 339-345: from the returned text to the signature
sign_value(text) ==
    LET sig == hex_decode(strip_prefix_0x(text))
    IN IF IsErr(sig) THEN sig
       ELSE LET signature == Signature_try_from(sig.val)
            IN IF IsErr(signature) THEN Err(signature_error(signature.err))
               ELSE signature

(***************************************************************************)
(* ABI data.  A Bytes value is a sequence of 32-byte words, a word being   *)
(* the number it holds; an offset is a number of bytes.                    *)
(***************************************************************************)
AbiWord == 32

\* abi::decode(&[param], bytes): Ok(token) or Err
abi_decode(param, data) ==
    IF param = "Address"
    THEN IF Len(data) >= 1 THEN Ok(data[1]) ELSE Err("InvalidData")
    ELSE \* "String": offset word, then at the offset the length word and the bytes
        IF Len(data) < 1 \/ data[1] % AbiWord # 0 \/ data[1] \div AbiWord + 1 > Len(data)
        THEN Err("InvalidData")
        ELSE LET at == data[1] \div AbiWord + 1
                 len == data[at]
                 n == (len + AbiWord - 1) \div AbiWord
             IN IF at + n > Len(data) THEN Err("InvalidData")
                ELSE Ok([len |-> len, words |-> SubSeq(data, at + 1, at + n)])

\* decode_bytes: .expect() on the decoding, so a failure is a panic
decode_bytes(param, bytes) ==
    LET tokens == abi_decode(param, bytes)
    IN IF IsErr(tokens)
       THEN [tag |-> "Panic", msg |-> "could not abi-decode bytes to address tokens"]
       ELSE Ok(tokens.val)

\* ens::get_resolver(ens_addr, name): the registry's resolver(namehash(name))
get_resolver(ens_addr, name) ==
    [from |-> None, to |-> Some(Address(ens_addr)), gas |-> None,
     data |-> Some([selector |-> RESOLVER_SELECTOR, node |-> name])]

\* ens::resolve(resolver_address, selector, name)
resolve(resolver_address, selector, name) ==
    [from |-> None, to |-> Some(Address(resolver_address)), gas |-> None,
     data |-> Some([selector |-> selector, node |-> name])]

\* ens::reverse_address(address): the name of the address in addr.reverse
reverse_address(a) == IF a = 1 THEN "01.addr.reverse" ELSE "02.addr.reverse"

(***************************************************************************)
(* The transport: what it may answer to each method                        *)
(***************************************************************************)
BlockNumbers == {12}

\* Bytes an eth_call may return: nothing, the zero address, an address,
\* the ABI encoding of a 9-byte string
CallBytes == {<<>>, <<ZeroAddress>>, <<5>>, <<32, 9, 77>>}

\* the longest free part of a returned storage text
MaxBody == 2
StorageChars == {"0", "a", "x", "g"}
Bodies == UNION {[1..n -> StorageChars] : n \in 0..MaxBody}
Fill(n) == [i \in 1..n |-> "a"]
StorageTexts ==
    {pre \o Fill(n) \o b : pre \in {<<>>, <<"0", "x">>},
                           n \in {0, PadWidth - 1, PadWidth},
                           b \in Bodies}

\* U256 results (a nonce, a balance) and deployed code
Quantities == {0, 7}
Codes == {<<>>, <<96, 128>>}

\* ids the node gives to filters and to subscriptions
FilterIds == {1}
SubIds == {1}

\* what a filter or a subscription reports, and the longest poll batch
Items == {"x", "y"}
MaxBatch == 2
Batches == UNION {[1..n -> Items] : n \in 0..MaxBatch}

\* texts eth_sign may return: with and without 0x, of the signature's length
\* and around it, ending in any short text
SignTexts ==
    {pre \o Fill(n) \o b : pre \in {<<>>, <<"0", "x">>},
                           n \in {0, 2 * SignatureLen - 2, 2 * SignatureLen},
                           b \in Bodies}

Receipts(h) == {[transaction_hash |-> h, status |-> st] : st \in {0, 1}}

Values(method, params) ==
    CASE method = "eth_blockNumber" -> BlockNumbers
      [] method = "eth_estimateGas" -> GasVals
      [] method = "eth_sendTransaction" -> Hashes
      [] method = "eth_sendRawTransaction" -> Hashes
      [] method = "eth_call" -> CallBytes
      [] method = "eth_getStorageAt" -> StorageTexts
      [] method = "eth_getTransactionCount" -> Quantities
      [] method = "eth_getBalance" -> Quantities
      [] method = "eth_getCode" -> Codes
      [] method = "eth_sign" -> SignTexts
      [] method \in {"eth_newFilter", "eth_newBlockFilter",
                      "eth_newPendingTransactionFilter"} -> FilterIds
      [] method = "eth_getFilterChanges" -> Batches
      [] method = "eth_uninstallFilter" -> BOOLEAN
      [] method = "eth_subscribe" -> SubIds
      [] method = "eth_unsubscribe" -> BOOLEAN
      [] method = "eth_getTransactionReceipt" ->
            {None} \cup {Some(r) : r \in Receipts(params[1])}

Responses(method, params) ==
    {Ok(v) : v \in Values(method, params)} \cup {Err(e) : e \in TransportErrors}

\* the node answers r to the request: what its filters and subscriptions allow
Admits(req, r) ==
    CASE req.method \in {"eth_newFilter", "eth_newBlockFilter",
                          "eth_newPendingTransactionFilter"} ->
            IsOk(r) => r.val \notin server.filters
      [] req.method = "eth_getFilterChanges" ->
            IsOk(r) => req.params[1] \in server.filters
      [] req.method = "eth_uninstallFilter" ->
            IsOk(r) => (r.val = (req.params[1] \in server.filters))
      [] req.method = "eth_subscribe" ->
            IsOk(r) => r.val \notin server.subs
      [] req.method = "eth_unsubscribe" ->
            IsOk(r) => (r.val = (req.params[1] \in server.subs))
      [] OTHER -> TRUE

\* the node's filters and subscriptions after it answered r to the request
Serve(req, r) ==
    CASE req.method \in {"eth_newFilter", "eth_newBlockFilter",
                          "eth_newPendingTransactionFilter"} /\ IsOk(r) ->
            [server EXCEPT !.filters = @ \cup {r.val}]
      [] req.method = "eth_uninstallFilter" /\ IsOk(r) ->
            [server EXCEPT !.filters = @ \ {req.params[1]}]
      [] req.method = "eth_subscribe" /\ IsOk(r) ->
            [server EXCEPT !.subs = @ \cup {r.val}]
      [] req.method = "eth_unsubscribe" /\ IsOk(r) ->
            [server EXCEPT !.subs = @ \ {req.params[1]}]
      [] OTHER -> server

(***************************************************************************)
(* Tasks                                                                   *)
(***************************************************************************)
ReqEv(m, p) == [ev |-> "req", method |-> m, params |-> p]
RespEv(m, r) == [ev |-> "resp", method |-> m, result |-> r]
SleepEv(d) == [ev |-> "sleep", dur |-> d]
PushEv(x) == [ev |-> "push", item |-> x]

IdleTask ==
    [op |-> "idle", pc |-> "idle", arg |-> None, tx |-> None, qr |-> None,
     ret |-> None, log |-> <<>>, items |-> <<>>, yielded |-> <<>>]

StartCall(o, a) == [IdleTask EXCEPT !.op = o, !.arg = a]

\* the operation returns r to its caller
Return(s, r) == [s EXCEPT !.pc = "done", !.ret = r]

\* the operation unwinds
Unwind(s, p) == [s EXCEPT !.pc = "panicked", !.ret = p]

LastReq(s) == s.log[Len(s.log)]

\* Provider::request (lines 112-129), up to its await: one call of the transport
request(s, method, params, await) ==
    [s EXCEPT !.pc = await, !.log = Append(@, ReqEv(method, params))]

\* Provider::request, after its await: map_err(Into::into) wraps a failure
request_result_AsSerdeJson(r) ==
    IF IsOk(r) THEN r ELSE Err([kind |-> "SerdeJson", inner |-> r.err])
request_result(r) == IF IsOk(r) THEN r ELSE Err(JsonRpcClientError(r.err))

\* the response r arrives at the task's await point
Received(s, r) == [s EXCEPT !.log = Append(@, RespEv(LastReq(s).method, r))]

\* Provider::get_interval
get_interval_Default == DEFAULT_POLL_INTERVAL
get_interval ==
    IF provider.interval = None THEN DEFAULT_POLL_INTERVAL ELSE provider.interval.val

\* PendingTransaction::new(tx_hash, self).interval(..)
PendingTransaction_FixedHash(tx_hash, interval) == [tx_hash |-> "h1", interval |-> interval]
PendingTransaction(tx_hash, interval) == [tx_hash |-> tx_hash, interval |-> interval]

(***************************************************************************)
(* The operations, as steps from one await point to the next.  Each        *)
(* operator takes the task's record and gives the record after the step.   *)
(***************************************************************************)

\* get_storage_at, lines 436-443: the request, once the address is known
get_storage_at_request(s, addr) ==
    request(s, "eth_getStorageAt", <<addr, "slot0", "latest">>, "get_storage_at")

\* get_storage_at, lines 441-446: the returned text becomes an H256
get_storage_at_value(s, r) ==
    LET res == request_result(r)
    IN IF IsErr(res) THEN Return(s, res)
       ELSE LET v == storage_value(res.val)
            IN IF v.tag = "Panic" THEN Unwind(s, v) ELSE Return(s, v)

\* the method of get_transaction_count, get_balance and get_code
AccountMethod(o) ==
    CASE o = "get_transaction_count" -> "eth_getTransactionCount"
      [] o = "get_balance" -> "eth_getBalance"
      [] o = "get_code" -> "eth_getCode"

\* get_transaction_count (231-233), get_balance (247-249), get_code (460-462):
\* the request, once the address is known
account_request(s, addr) == request(s, AccountMethod(s.op), <<addr, "latest">>, s.op)

\* send_transaction, line 304: the submit call
send_transaction_submit(s) ==
    request(s, "eth_sendTransaction", <<s.tx>>, "send_transaction_submit")

\* send_transaction, lines 304-306, with the hash kept in a place the calls share
send_transaction_wrap_SharedHash(s, r) ==
    LET res == request_result(r)
        wrapped == {u \in Tasks : /\ task[u].op = "send_transaction"
                                  /\ task[u].pc = "done"
                                  /\ IsOk(task[u].ret)}
    IN IF IsErr(res) THEN Return(s, res)
       ELSE IF wrapped = {} THEN Return(s, Ok(PendingTransaction(res.val, get_interval)))
       ELSE Return(s, Ok(PendingTransaction(task[CHOOSE u \in wrapped : TRUE].ret.val.tx_hash,
                                            get_interval)))

\* send_transaction, lines 304-306: the hash is wrapped in a PendingTransaction
send_transaction_wrap(s, r) ==
    LET res == request_result(r)
    IN IF IsErr(res) THEN Return(s, res)
       ELSE Return(s, Ok(PendingTransaction(res.val, get_interval)))

\* send_transaction, line 301: tx.to = Some(addr.into())
rewrite_to_Keep(tx, addr) == tx
rewrite_to(tx, addr) == [tx EXCEPT !.to = Some(Address(addr))]

\* where query_resolver's result goes: the `?` and the code after it in the caller
query_resolver_return(s, res) ==
    CASE s.op = "send_transaction" ->
            \* lines 298-304
            IF IsErr(res) THEN Return(s, res)
            ELSE send_transaction_submit([s EXCEPT !.tx = rewrite_to(@, res.val)])
      [] s.op = "get_storage_at" ->
            \* lines 432, 436
            IF IsErr(res) THEN Return(s, res) ELSE get_storage_at_request(s, res.val)
      [] s.op \in {"get_transaction_count", "get_balance", "get_code"} ->
            \* lines 227, 243, 456
            IF IsErr(res) THEN Return(s, res) ELSE account_request(s, res.val)
      [] OTHER ->
            \* resolve_name, lookup_address: lines 479-480, 490-491
            Return(s, res)

\* query_resolver, line 662, without the override
ens_address_Default == ENS_ADDRESS

\* query_resolver, line 663: the local override first
ens_address == IF provider.ens = None THEN ENS_ADDRESS ELSE provider.ens.val

\* query_resolver, lines 662-669: the call to the registry
query_resolver(s, param, ens_name, selector) ==
    request([s EXCEPT !.qr = [param |-> param, ens_name |-> ens_name,
                              selector |-> selector]],
            "eth_call", <<get_resolver(ens_address, ens_name), "latest">>,
            "query_resolver_registry")

\* query_resolver, line 672: resolver_address == Address::zero()
is_zero_Never(a) == FALSE
is_zero(a) == a = ZeroAddress

\* query_resolver, lines 669-679: the registry answered
query_resolver_registry(s, r) ==
    LET res == request_result(r)
    IN IF IsErr(res) THEN query_resolver_return(s, res)
       ELSE LET resolver_address == decode_bytes("Address", res.val)
            IN IF resolver_address.tag = "Panic" THEN Unwind(s, resolver_address)
               ELSE IF is_zero(resolver_address.val)
                    THEN query_resolver_return(s, Err(EnsError(s.qr.ens_name)))
               ELSE request(s, "eth_call",
                            <<resolve(resolver_address.val, s.qr.selector, s.qr.ens_name),
                              "latest">>,
                            "query_resolver_resolve")

\* query_resolver, lines 679-681: the resolver answered
query_resolver_resolve(s, r) ==
    LET res == request_result(r)
    IN IF IsErr(res) THEN query_resolver_return(s, res)
       ELSE LET v == decode_bytes(s.qr.param, res.val)
            IN IF v.tag = "Panic" THEN Unwind(s, v) ELSE query_resolver_return(s, v)

\* resolve_name, lines 478-481
resolve_name(s, ens_name) == query_resolver(s, "Address", ens_name, ADDR_SELECTOR)

\* lookup_address, lines 488-492
lookup_address(s, address) ==
    query_resolver(s, "String", reverse_address(address), NAME_SELECTOR)

\* send_transaction, line 288
from_is_none(tx) == tx.from = None

\* send_transaction, line 292
gas_is_none_Always(tx) == TRUE
gas_is_none(tx) == tx.gas = None

\* send_transaction, line 296: if let Some(NameOrAddress::Name(..)) = tx.to
to_is_name(tx) == tx.to # None /\ tx.to.val.tag = "Name"

\* send_transaction, lines 296-304: resolve the recipient, then submit
send_transaction_resolve(s) ==
    IF to_is_name(s.tx) THEN resolve_name(s, s.tx.to.val.name)
    ELSE send_transaction_submit(s)

\* send_transaction, lines 288-294: default sender, then the estimate
send_transaction(s, tx) ==
    LET tx1 == IF from_is_none(tx) THEN [tx EXCEPT !.from = provider.sender] ELSE tx
        s1 == [s EXCEPT !.tx = tx1]
    IN IF gas_is_none(tx1)
       \* estimate_gas, lines 277-279
       THEN request(s1, "eth_estimateGas", <<tx1>>, "send_transaction_estimate")
       ELSE send_transaction_resolve(s1)

\* send_transaction, line 293: the estimate answered
send_transaction_estimated(s, r) ==
    LET res == request_result(r)
    IN IF IsErr(res) THEN Return(s, res)
       ELSE send_transaction_resolve([s EXCEPT !.tx.gas = Some(res.val)])

\* NameOrAddress::Name(ens_name) in the match of lines 226, 242, 431, 455
is_name(from) == from.tag = "Name"

\* get_transaction_count (226-229), get_balance (242-245), get_code (455-458)
account_query(s, from) ==
    IF is_name(from) THEN resolve_name(s, from.name)
    ELSE account_request(s, from.addr)

\* get_storage_at, lines 431-434
get_storage_at(s, from) ==
    IF is_name(from) THEN resolve_name(s, from.name)
    ELSE get_storage_at_request(s, from.addr)

\* sign, lines 335-339, up to the await
sign(s, data, from) == request(s, "eth_sign", <<from, data>>, "sign")

\* is_signer, line 324: .is_ok()
is_ok_Always(res) == TRUE
is_ok(res) == IsOk(res)

\* sign, lines 339-345, after the await; is_signer, line 324, takes is_ok of it
sign_return(s, r) ==
    LET res == request_result(r)
        signed == IF IsErr(res) THEN res ELSE sign_value(res.val)
    IN IF s.op = "is_signer" THEN Return(s, is_ok(signed)) ELSE Return(s, signed)

\* is_signer, lines 322-327
is_signer(s) ==
    IF provider.sender = None THEN Return(s, FALSE)
    ELSE sign(s, <<>>, provider.sender.val)

\* send_raw_transaction, line 314: utils::serialize(&tx.rlp())
rlp_FromSender(tx) ==
    IF provider.sender = None THEN [rlp |-> tx]
    ELSE [rlp |-> [tx EXCEPT !.from = provider.sender.val]]
rlp(tx) == [rlp |-> tx]

\* send_raw_transaction, lines 314-315, up to the await
send_raw_transaction(s, tx) ==
    request(s, "eth_sendRawTransaction", <<rlp(tx)>>, "send_raw_transaction")

\* send_raw_transaction, lines 315-316: the hash is wrapped in a PendingTransaction
send_raw_transaction_wrap(s, r) ==
    LET res == request_result(r)
    IN IF IsErr(res) THEN Return(s, res)
       ELSE Return(s, Ok(PendingTransaction(res.val, get_interval)))

\* get_block_number, lines 172-174
get_block_number(s) == request(s, "eth_blockNumber", <<>>, "get_block_number")

\* a method whose body is `self.request(..).await`: the result as it is
request_return(s, r) == Return(s, request_result(r))

(***************************************************************************)
(* The pending transaction: a poll loop over get_transaction_receipt       *)
(***************************************************************************)
\* the most null receipts the transport answers to one pending transaction
MaxNullPolls == 3

IsNullReceipt(e) == e.ev = "resp" /\ IsOk(e.result) /\ e.result.val = None

NullPolls(s) == Cardinality({i \in 1..Len(s.log) : IsNullReceipt(s.log[i])})

\* get_transaction_receipt, lines 202-208, for the pending transaction's hash
pending_poll(s) ==
    request(s, "eth_getTransactionReceipt", <<s.arg.tx_hash>>, "pending_get_receipt")

\* the receipt request answered: null sleeps the interval, a receipt resolves
pending_receipt(s, r) ==
    LET res == request_result(r)
    IN IF IsErr(res) THEN Return(s, res)
       ELSE IF res.val = None
            THEN [s EXCEPT !.pc = "pending_sleep", !.log = Append(@, SleepEv(s.arg.interval))]
       ELSE Return(s, Ok(res.val.val))

(***************************************************************************)
(* Filters and their watchers                                              *)
(***************************************************************************)
\* the most polls of one watcher, the most pushes to one subscription
MaxPolls == 2
MaxPushes == 3

FilterKinds == {"Logs", "NewBlocks", "PendingTransactions"}

\* watch (356-363), watch_blocks (366-370), watch_pending_transactions (373-379)
WatchOp(kind) ==
    CASE kind = "Logs" -> "watch"
      [] kind = "NewBlocks" -> "watch_blocks"
      [] kind = "PendingTransactions" -> "watch_pending_transactions"

WatchOps == {WatchOp(k) : k \in FilterKinds}

\* new_filter, lines 383-391
new_filter(s, kind) ==
    CASE kind = "NewBlocks" -> request(s, "eth_newBlockFilter", <<>>, "new_filter")
      [] kind = "PendingTransactions" ->
            request(s, "eth_newPendingTransactionFilter", <<>>, "new_filter")
      [] kind = "Logs" -> request(s, "eth_newFilter", <<"filter">>, "new_filter")

\* FilterWatcher::new(id, self).interval(..)
FilterWatcher(id, interval) == [id |-> id, interval |-> interval]

\* watch, lines 360-362 (and 367-369, 376-378): the id is wrapped in a watcher
watch_wrap(s, r) ==
    LET res == request_result(r)
    IN IF IsErr(res) THEN Return(s, res)
       ELSE Return(s, Ok(FilterWatcher(res.val, get_interval)))

\* uninstall_filter, lines 394-400
uninstall_filter(s, id) == request(s, "eth_uninstallFilter", <<id>>, "uninstall_filter")

\* get_filter_changes, line 421, sending the method of line 399 instead
get_filter_changes_Uninstalls(s, id) ==
    request(s, "eth_uninstallFilter", <<id>>, "watcher_get_changes")

\* get_filter_changes, lines 415-422, up to its await
get_filter_changes(s, id) == request(s, "eth_getFilterChanges", <<id>>, "watcher_get_changes")

Reverse(q) == [i \in 1..Len(q) |-> q[Len(q) + 1 - i]]

\* get_filter_changes, line 421: the Vec<R> the request gave
get_filter_changes_Reversed(r) ==
    IF IsOk(r) THEN Ok(Reverse(r.val)) ELSE Err(JsonRpcClientError(r.err))
get_filter_changes_result(r) == request_result(r)

\* the watcher's poll answered: the batch is kept to be yielded item by item
watcher_changes(s, r) ==
    LET res == get_filter_changes_result(r)
    IN IF IsErr(res) THEN Return(s, res)
       ELSE [s EXCEPT !.pc = "watcher_next_item", !.items = res.val]

\* the stream yields the next item of the batch
stream_yield(s) == [s EXCEPT !.yielded = Append(@, Head(s.items)), !.items = Tail(@)]

\* the batch is used up: the watcher sleeps its interval
watcher_sleep(s) == [s EXCEPT !.pc = "watcher_sleep", !.log = Append(@, SleepEv(s.arg.interval))]

Polls(s) == Cardinality({i \in 1..Len(s.log) : s.log[i].ev = "req"})

(***************************************************************************)
(* Subscriptions and their streams                                         *)
(***************************************************************************)
Topics == {"newHeads", "newPendingTransactions", "logs"}

\* subscribe_blocks (624-631), subscribe_pending_txs (633-640), subscribe_logs (642-652)
subscribe_params(topic) == IF topic = "logs" THEN <<"logs", "filter">> ELSE <<topic>>

\* subscribe, line 612
subscribe(s, topic) == request(s, "eth_subscribe", subscribe_params(topic), "subscribe")

\* SubscriptionStream::new(id, self): the transport registers a channel or fails
SubscriptionStream_new(id, reg) == IF IsOk(reg) THEN Ok([id |-> id]) ELSE reg

\* subscribe, line 613: map_err(Into::into)
subscribe_map_err(r) == IF IsOk(r) THEN r ELSE Err(JsonRpcClientError(r.err))

\* subscribe, lines 612-613
subscribe_wrap(s, r, reg) ==
    LET res == request_result(r)
    IN IF IsErr(res) THEN Return(s, res)
       ELSE Return(s, subscribe_map_err(SubscriptionStream_new(res.val, reg)))

\* unsubscribe, lines 616-622
unsubscribe(s, id) == request(s, "eth_unsubscribe", <<id>>, "unsubscribe")

\* the transport hands a pushed item to the stream's channel
stream_push(s, x) == [s EXCEPT !.items = Append(@, x), !.log = Append(@, PushEv(x))]

Pushes(s) == Cardinality({i \in 1..Len(s.log) : s.log[i].ev = "push"})

(***************************************************************************)
(* Actions                                                                 *)
(***************************************************************************)
TxInputs ==
    [from : {None, Some(2)},
     to : {None, Some(Address(1))} \cup {Some(Name(n)) : n \in EnsNames},
     gas : {None} \cup {Some(g) : g \in GasVals},
     data : {None}]

Init ==
    /\ provider = [ens |-> None, interval |-> None, sender |-> None]  \* Provider::new
    /\ shared = FALSE
    /\ task = [t \in Tasks |-> IdleTask]
    /\ server = [filters |-> {}, subs |-> {}]

\* with_sender, lines 107-110
WithSender ==
    /\ ~shared
    /\ \E a \in Accounts : provider' = [provider EXCEPT !.sender = Some(a)]
    /\ UNCHANGED <<shared, task, server>>

\* ens, lines 697-700
Ens ==
    /\ ~shared
    /\ \E a \in EnsOverrides : provider' = [provider EXCEPT !.ens = Some(a)]
    /\ UNCHANGED <<shared, task, server>>

\* interval, lines 704-707
Interval ==
    /\ ~shared
    /\ \E d \in Intervals : provider' = [provider EXCEPT !.interval = Some(d)]
    /\ UNCHANGED <<shared, task, server>>

\* the answers the transport may give to the request the task awaits
Answers(t) == Responses(LastReq(task[t]).method, LastReq(task[t]).params)

CallGetBlockNumber(t) ==
    /\ task[t].pc = "idle"
    /\ task' = [task EXCEPT ![t] = get_block_number(StartCall("get_block_number", None))]
    /\ shared' = TRUE
    /\ UNCHANGED <<provider, server>>

RecvBlockNumber(t) ==
    /\ task[t].pc = "get_block_number"
    /\ \E r \in Answers(t) :
          task' = [task EXCEPT ![t] = request_return(Received(task[t], r), r)]
    /\ UNCHANGED <<provider, shared, server>>

CallSendTransaction(t) ==
    /\ task[t].pc = "idle"
    /\ \E tx \in TxInputs :
          task' = [task EXCEPT ![t] =
                     send_transaction(StartCall("send_transaction", tx), tx)]
    /\ shared' = TRUE
    /\ UNCHANGED <<provider, server>>

RecvEstimateGas(t) ==
    /\ task[t].pc = "send_transaction_estimate"
    /\ \E r \in Answers(t) :
          task' = [task EXCEPT ![t] = send_transaction_estimated(Received(task[t], r), r)]
    /\ UNCHANGED <<provider, shared, server>>

RecvSubmit(t) ==
    /\ task[t].pc = "send_transaction_submit"
    /\ \E r \in Answers(t) :
          task' = [task EXCEPT ![t] = send_transaction_wrap(Received(task[t], r), r)]
    /\ UNCHANGED <<provider, shared, server>>

CallResolveName(t) ==
    /\ task[t].pc = "idle"
    /\ \E n \in EnsNames :
          task' = [task EXCEPT ![t] = resolve_name(StartCall("resolve_name", n), n)]
    /\ shared' = TRUE
    /\ UNCHANGED <<provider, server>>

CallLookupAddress(t) ==
    /\ task[t].pc = "idle"
    /\ \E a \in Accounts :
          task' = [task EXCEPT ![t] = lookup_address(StartCall("lookup_address", a), a)]
    /\ shared' = TRUE
    /\ UNCHANGED <<provider, server>>

RecvRegistry(t) ==
    /\ task[t].pc = "query_resolver_registry"
    /\ \E r \in Answers(t) :
          task' = [task EXCEPT ![t] = query_resolver_registry(Received(task[t], r), r)]
    /\ UNCHANGED <<provider, shared, server>>

RecvResolver(t) ==
    /\ task[t].pc = "query_resolver_resolve"
    /\ \E r \in Answers(t) :
          task' = [task EXCEPT ![t] = query_resolver_resolve(Received(task[t], r), r)]
    /\ UNCHANGED <<provider, shared, server>>

CallGetStorageAt(t) ==
    /\ task[t].pc = "idle"
    /\ \E from \in {Address(1)} \cup {Name(n) : n \in EnsNames} :
          task' = [task EXCEPT ![t] =
                     get_storage_at(StartCall("get_storage_at", from), from)]
    /\ shared' = TRUE
    /\ UNCHANGED <<provider, server>>

RecvStorageAt(t) ==
    /\ task[t].pc = "get_storage_at"
    /\ \E r \in Answers(t) :
          task' = [task EXCEPT ![t] = get_storage_at_value(Received(task[t], r), r)]
    /\ UNCHANGED <<provider, shared, server>>

NameOrAddressInputs == {Address(1)} \cup {Name(n) : n \in EnsNames}

CallGetTransactionCount(t) ==
    /\ task[t].pc = "idle"
    /\ \E from \in NameOrAddressInputs :
          task' = [task EXCEPT ![t] =
                     account_query(StartCall("get_transaction_count", from), from)]
    /\ shared' = TRUE
    /\ UNCHANGED <<provider, server>>

RecvTransactionCount(t) ==
    /\ task[t].pc = "get_transaction_count"
    /\ \E r \in Answers(t) :
          task' = [task EXCEPT ![t] = request_return(Received(task[t], r), r)]
    /\ UNCHANGED <<provider, shared, server>>

CallGetBalance(t) ==
    /\ task[t].pc = "idle"
    /\ \E from \in NameOrAddressInputs :
          task' = [task EXCEPT ![t] = account_query(StartCall("get_balance", from), from)]
    /\ shared' = TRUE
    /\ UNCHANGED <<provider, server>>

RecvBalance(t) ==
    /\ task[t].pc = "get_balance"
    /\ \E r \in Answers(t) :
          task' = [task EXCEPT ![t] = request_return(Received(task[t], r), r)]
    /\ UNCHANGED <<provider, shared, server>>

CallGetCode(t) ==
    /\ task[t].pc = "idle"
    /\ \E at \in NameOrAddressInputs :
          task' = [task EXCEPT ![t] = account_query(StartCall("get_code", at), at)]
    /\ shared' = TRUE
    /\ UNCHANGED <<provider, server>>

RecvCode(t) ==
    /\ task[t].pc = "get_code"
    /\ \E r \in Answers(t) :
          task' = [task EXCEPT ![t] = request_return(Received(task[t], r), r)]
    /\ UNCHANGED <<provider, shared, server>>

\* data to sign
SignData == {<<>>, <<1, 2>>}

CallSign(t) ==
    /\ task[t].pc = "idle"
    /\ \E data \in SignData, from \in Accounts :
          task' = [task EXCEPT ![t] =
                     sign(StartCall("sign", [data |-> data, from |-> from]), data, from)]
    /\ shared' = TRUE
    /\ UNCHANGED <<provider, server>>

CallIsSigner(t) ==
    /\ task[t].pc = "idle"
    /\ task' = [task EXCEPT ![t] = is_signer(StartCall("is_signer", None))]
    /\ shared' = TRUE
    /\ UNCHANGED <<provider, server>>

RecvSign(t) ==
    /\ task[t].pc = "sign"
    /\ \E r \in Answers(t) :
          task' = [task EXCEPT ![t] = sign_return(Received(task[t], r), r)]
    /\ UNCHANGED <<provider, shared, server>>

\* signed transactions
SignedTxs == [from : Accounts, to : {None, Some(1)}]

CallSendRawTransaction(t) ==
    /\ task[t].pc = "idle"
    /\ \E tx \in SignedTxs :
          task' = [task EXCEPT ![t] =
                     send_raw_transaction(StartCall("send_raw_transaction", tx), tx)]
    /\ shared' = TRUE
    /\ UNCHANGED <<provider, server>>

RecvSendRaw(t) ==
    /\ task[t].pc = "send_raw_transaction"
    /\ \E r \in Answers(t) :
          task' = [task EXCEPT ![t] = send_raw_transaction_wrap(Received(task[t], r), r)]
    /\ UNCHANGED <<provider, shared, server>>

\* the caller awaits the PendingTransaction send_transaction or
\* send_raw_transaction returned
AwaitPending(t) ==
    /\ task[t].pc = "done"
    /\ task[t].op \in {"send_transaction", "send_raw_transaction"}
    /\ IsOk(task[t].ret)
    /\ task' = [task EXCEPT ![t] =
                  pending_poll(StartCall("pending_transaction", task[t].ret.val))]
    /\ UNCHANGED <<provider, shared, server>>

RecvReceipt(t) ==
    /\ task[t].pc = "pending_get_receipt"
    /\ \E r \in Answers(t) :
          /\ (IsOk(r) /\ r.val = None) => NullPolls(task[t]) < MaxNullPolls
          /\ task' = [task EXCEPT ![t] = pending_receipt(Received(task[t], r), r)]
    /\ UNCHANGED <<provider, shared, server>>

\* the sleep is over: the next poll
PendingWake(t) ==
    /\ task[t].pc = "pending_sleep"
    /\ task' = [task EXCEPT ![t] = pending_poll(task[t])]
    /\ UNCHANGED <<provider, shared, server>>

CallWatch(t) ==
    /\ task[t].pc = "idle"
    /\ \E kind \in FilterKinds :
          task' = [task EXCEPT ![t] = new_filter(StartCall(WatchOp(kind), kind), kind)]
    /\ shared' = TRUE
    /\ UNCHANGED <<provider, server>>

RecvNewFilter(t) ==
    /\ task[t].pc = "new_filter"
    /\ \E r \in Answers(t) :
          /\ Admits(LastReq(task[t]), r)
          /\ task' = [task EXCEPT ![t] = watch_wrap(Received(task[t], r), r)]
          /\ server' = Serve(LastReq(task[t]), r)
    /\ UNCHANGED <<provider, shared>>

\* the caller consumes the watcher as a stream: the first poll
WatcherStream(t) ==
    /\ task[t].pc = "done"
    /\ task[t].op \in WatchOps
    /\ IsOk(task[t].ret)
    /\ task' = [task EXCEPT ![t] =
                  get_filter_changes(StartCall("filter_watcher", task[t].ret.val),
                                     task[t].ret.val.id)]
    /\ UNCHANGED <<provider, shared, server>>

RecvFilterChanges(t) ==
    /\ task[t].pc = "watcher_get_changes"
    /\ \E r \in Answers(t) :
          /\ Admits(LastReq(task[t]), r)
          /\ task' = [task EXCEPT ![t] = watcher_changes(Received(task[t], r), r)]
    /\ UNCHANGED <<provider, shared, server>>

WatcherYield(t) ==
    /\ task[t].pc = "watcher_next_item"
    /\ task[t].items # <<>>
    /\ task' = [task EXCEPT ![t] = stream_yield(task[t])]
    /\ UNCHANGED <<provider, shared, server>>

WatcherSleep(t) ==
    /\ task[t].pc = "watcher_next_item"
    /\ task[t].items = <<>>
    /\ task' = [task EXCEPT ![t] = watcher_sleep(task[t])]
    /\ UNCHANGED <<provider, shared, server>>

WatcherWake(t) ==
    /\ task[t].pc = "watcher_sleep"
    /\ Polls(task[t]) < MaxPolls
    /\ task' = [task EXCEPT ![t] = get_filter_changes(task[t], task[t].arg.id)]
    /\ UNCHANGED <<provider, shared, server>>

CallUninstallFilter(t) ==
    /\ task[t].pc = "idle"
    /\ \E id \in FilterIds :
          task' = [task EXCEPT ![t] = uninstall_filter(StartCall("uninstall_filter", id), id)]
    /\ shared' = TRUE
    /\ UNCHANGED <<provider, server>>

RecvUninstallFilter(t) ==
    /\ task[t].pc = "uninstall_filter"
    /\ \E r \in Answers(t) :
          /\ Admits(LastReq(task[t]), r)
          /\ task' = [task EXCEPT ![t] = request_return(Received(task[t], r), r)]
          /\ server' = Serve(LastReq(task[t]), r)
    /\ UNCHANGED <<provider, shared>>

CallSubscribe(t) ==
    /\ task[t].pc = "idle"
    /\ \E topic \in Topics :
          task' = [task EXCEPT ![t] = subscribe(StartCall("subscribe", topic), topic)]
    /\ shared' = TRUE
    /\ UNCHANGED <<provider, server>>

RecvSubscribe(t) ==
    /\ task[t].pc = "subscribe"
    /\ \E r \in Answers(t), reg \in {Ok(TRUE)} \cup {Err(e) : e \in TransportErrors} :
          /\ Admits(LastReq(task[t]), r)
          /\ task' = [task EXCEPT ![t] = subscribe_wrap(Received(task[t], r), r, reg)]
          /\ server' = Serve(LastReq(task[t]), r)
    /\ UNCHANGED <<provider, shared>>

\* the caller consumes the subscription stream
SubscriptionListen(t) ==
    /\ task[t].pc = "done"
    /\ task[t].op = "subscribe"
    /\ IsOk(task[t].ret)
    /\ task' = [task EXCEPT ![t] =
                  [StartCall("subscription_stream", task[t].ret.val)
                     EXCEPT !.pc = "subscription_next"]]
    /\ UNCHANGED <<provider, shared, server>>

\* the node pushes an item of the subscription
Push(t) ==
    /\ task[t].pc = "subscription_next"
    /\ task[t].arg.id \in server.subs
    /\ Pushes(task[t]) < MaxPushes
    /\ \E x \in Items : task' = [task EXCEPT ![t] = stream_push(task[t], x)]
    /\ UNCHANGED <<provider, shared, server>>

SubscriptionYield(t) ==
    /\ task[t].pc = "subscription_next"
    /\ task[t].items # <<>>
    /\ task' = [task EXCEPT ![t] = stream_yield(task[t])]
    /\ UNCHANGED <<provider, shared, server>>

CallUnsubscribe(t) ==
    /\ task[t].pc = "idle"
    /\ \E id \in SubIds :
          task' = [task EXCEPT ![t] = unsubscribe(StartCall("unsubscribe", id), id)]
    /\ shared' = TRUE
    /\ UNCHANGED <<provider, server>>

RecvUnsubscribe(t) ==
    /\ task[t].pc = "unsubscribe"
    /\ \E r \in Answers(t) :
          /\ Admits(LastReq(task[t]), r)
          /\ task' = [task EXCEPT ![t] = request_return(Received(task[t], r), r)]
          /\ server' = Serve(LastReq(task[t]), r)
    /\ UNCHANGED <<provider, shared>>

StreamOps == {"filter_watcher", "subscription_stream", "pending_transaction"}

\* the caller drops a watcher, a subscription stream or a pending-transaction wait
Drop(t) ==
    /\ task[t].op \in StreamOps
    /\ task[t].pc # "done"
    /\ task' = [task EXCEPT ![t] = IdleTask]
    /\ UNCHANGED <<provider, shared, server>>

\* the caller takes the result (or drops the pending transaction) and is free again
Finish(t) ==
    /\ task[t].pc = "done"
    /\ task' = [task EXCEPT ![t] = IdleTask]
    /\ UNCHANGED <<provider, shared, server>>

TaskNext(t) ==
    \/ CallGetBlockNumber(t)
    \/ RecvBlockNumber(t)
    \/ CallSendTransaction(t)
    \/ RecvEstimateGas(t)
    \/ RecvSubmit(t)
    \/ CallResolveName(t)
    \/ CallLookupAddress(t)
    \/ RecvRegistry(t)
    \/ RecvResolver(t)
    \/ CallGetStorageAt(t)
    \/ RecvStorageAt(t)
    \/ CallGetTransactionCount(t)
    \/ RecvTransactionCount(t)
    \/ CallGetBalance(t)
    \/ RecvBalance(t)
    \/ CallGetCode(t)
    \/ RecvCode(t)
    \/ CallSign(t)
    \/ CallIsSigner(t)
    \/ RecvSign(t)
    \/ CallSendRawTransaction(t)
    \/ RecvSendRaw(t)
    \/ AwaitPending(t)
    \/ RecvReceipt(t)
    \/ PendingWake(t)
    \/ CallWatch(t)
    \/ RecvNewFilter(t)
    \/ WatcherStream(t)
    \/ RecvFilterChanges(t)
    \/ WatcherYield(t)
    \/ WatcherSleep(t)
    \/ WatcherWake(t)
    \/ CallUninstallFilter(t)
    \/ RecvUninstallFilter(t)
    \/ CallSubscribe(t)
    \/ RecvSubscribe(t)
    \/ SubscriptionListen(t)
    \/ Push(t)
    \/ SubscriptionYield(t)
    \/ CallUnsubscribe(t)
    \/ RecvUnsubscribe(t)
    \/ Drop(t)
    \/ Finish(t)

Next ==
    \/ WithSender
    \/ Ens
    \/ Interval
    \/ \E t \in SeqTasks : TaskNext(t)

Spec == Init /\ [][Next]_vars

(***************************************************************************)
(* Several callers over one shared Provider: every task of Tasks runs      *)
(* send_transaction or get_block_number, the steps of different tasks      *)
(* interleaving at the await points in any order.                          *)
(***************************************************************************)
ConcNext(t) ==
    \/ CallGetBlockNumber(t)
    \/ RecvBlockNumber(t)
    \/ CallSendTransaction(t)
    \/ RecvEstimateGas(t)
    \/ RecvRegistry(t)
    \/ RecvResolver(t)
    \/ RecvSubmit(t)
    \/ Finish(t)

NextConc ==
    \/ WithSender
    \/ Ens
    \/ Interval
    \/ \E t \in Tasks : ConcNext(t)

SpecConc == Init /\ [][NextConc]_vars

(***************************************************************************)
(* Reading a task's trace                                                  *)
(***************************************************************************)
IsReq(e, m) == e.ev = "req" /\ e.method = m
IsResp(e, m) == e.ev = "resp" /\ e.method = m

\* the positions of the requests of method m in the task's trace
ReqsOf(s, m) == {i \in 1..Len(s.log) : IsReq(s.log[i], m)}

\* an eth_call request with the given selector
IsCall(e, sel) == IsReq(e, "eth_call") /\ e.params[1].data.val.selector = sel

SendTasks == {t \in Tasks : task[t].op = "send_transaction"}

(***************************************************************************)
(* C1: a send_transaction whose transaction has no gas sends exactly one   *)
(* eth_estimateGas request, and its result has arrived before the          *)
(* eth_sendTransaction request is sent; a transaction that carries a gas   *)
(* value sends no eth_estimateGas request.                                 *)
(***************************************************************************)
C1_EstimateOnceBeforeSend ==
    \A t \in SendTasks :
        LET s == task[t]
            est == ReqsOf(s, "eth_estimateGas")
        IN IF s.arg.gas = None
           THEN /\ Cardinality(est) = 1
                /\ \A j \in ReqsOf(s, "eth_sendTransaction") :
                      \E i \in est :
                          /\ i + 1 < j
                          /\ IsResp(s.log[i + 1], "eth_estimateGas")
                          /\ IsOk(s.log[i + 1].result)
                          /\ s.log[j].params[1].gas = Some(s.log[i + 1].result.val)
           ELSE /\ est = {}
                /\ \A j \in ReqsOf(s, "eth_sendTransaction") :
                      s.log[j].params[1].gas = s.arg.gas

\* a transaction without gas was estimated and then submitted
C1_Witness ==
    \E t \in SendTasks :
        /\ task[t].arg.gas = None
        /\ task[t].pc = "done"
        /\ IsOk(task[t].ret)
        /\ ReqsOf(task[t], "eth_sendTransaction") # {}

(***************************************************************************)
(* C2: a send_transaction whose recipient is a name makes exactly one      *)
(* resolution round-trip (the registry eth_call, its answer, the resolver  *)
(* eth_call, its answer) before the eth_sendTransaction request, and the   *)
(* submitted transaction's recipient is the address the resolver returned; *)
(* a recipient that is an address or absent makes no eth_call.             *)
(***************************************************************************)
C2_ResolveOnceBeforeSend ==
    \A t \in SendTasks :
        LET s == task[t]
            calls == ReqsOf(s, "eth_call")
        IN IF s.arg.to # None /\ s.arg.to.val.tag = "Name"
           THEN /\ Cardinality({i \in calls : IsCall(s.log[i], RESOLVER_SELECTOR)}) <= 1
                /\ Cardinality({i \in calls : IsCall(s.log[i], ADDR_SELECTOR)}) <= 1
                /\ Cardinality(calls) <= 2
                /\ \A j \in ReqsOf(s, "eth_sendTransaction") :
                      /\ j >= 5
                      /\ IsCall(s.log[j - 4], RESOLVER_SELECTOR)
                      /\ s.log[j - 4].params[1].data.val.node = s.arg.to.val.name
                      /\ IsResp(s.log[j - 3], "eth_call") /\ IsOk(s.log[j - 3].result)
                      /\ IsCall(s.log[j - 2], ADDR_SELECTOR)
                      /\ s.log[j - 2].params[1].data.val.node = s.arg.to.val.name
                      /\ IsResp(s.log[j - 1], "eth_call") /\ IsOk(s.log[j - 1].result)
                      /\ Cardinality(calls) = 2
                      /\ s.log[j].params[1].to = Some(Address(s.log[j - 1].result.val[1]))
           ELSE /\ calls = {}
                /\ \A j \in ReqsOf(s, "eth_sendTransaction") :
                      s.log[j].params[1].to = s.arg.to

\* a transaction to a name was resolved and submitted
C2_Witness ==
    \E t \in SendTasks :
        /\ task[t].arg.to # None
        /\ task[t].arg.to.val.tag = "Name"
        /\ task[t].pc = "done"
        /\ IsOk(task[t].ret)
        /\ ReqsOf(task[t], "eth_sendTransaction") # {}

(***************************************************************************)
(* What a response means for the step that awaited it                      *)
(***************************************************************************)
\* the bytes hold no value of the type: fewer bytes than the encoding needs
Undecodable(param, data) ==
    IF param = "Address" THEN Len(data) = 0
    ELSE \/ Len(data) = 0
         \/ data[1] % 32 # 0
         \/ data[1] \div 32 + 1 > Len(data)
         \/ data[1] \div 32 + 1 + (data[data[1] \div 32 + 1] + 31) \div 32 > Len(data)

\* the type the answer to the eth_call at position i of the trace is decoded as
ParamAt(s, i) ==
    IF IsCall(s.log[i], RESOLVER_SELECTOR) THEN "Address"
    ELSE IF s.log[i].params[1].data.val.selector = ADDR_SELECTOR THEN "Address"
    ELSE "String"

\* the trace ends with an answer the transport failed to give
EndsInTransportFailure(s) ==
    /\ Len(s.log) > 0
    /\ s.log[Len(s.log)].ev = "resp"
    /\ IsErr(s.log[Len(s.log)].result)

\* the trace ends with the registry's answer "no resolver"
EndsInZeroResolver(s) ==
    /\ Len(s.log) > 1
    /\ IsCall(s.log[Len(s.log) - 1], RESOLVER_SELECTOR)
    /\ IsResp(s.log[Len(s.log)], "eth_call")
    /\ IsOk(s.log[Len(s.log)].result)
    /\ Len(s.log[Len(s.log)].result.val) >= 1
    /\ s.log[Len(s.log)].result.val[1] = ZeroAddress

\* the trace ends with an eth_call answer that cannot be decoded
EndsInUndecodable(s) ==
    /\ Len(s.log) > 1
    /\ IsReq(s.log[Len(s.log) - 1], "eth_call")
    /\ IsResp(s.log[Len(s.log)], "eth_call")
    /\ IsOk(s.log[Len(s.log)].result)
    /\ Undecodable(ParamAt(s, Len(s.log) - 1), s.log[Len(s.log)].result.val)

\* the rank of a request in send_transaction's order of steps
StepRank(e) ==
    IF IsReq(e, "eth_estimateGas") THEN 1
    ELSE IF IsCall(e, RESOLVER_SELECTOR) THEN 2
    ELSE IF IsReq(e, "eth_call") THEN 3
    ELSE 4

\* the sender the transaction is submitted with
FilledFrom(s) == IF s.arg.from = None THEN provider.sender ELSE s.arg.from

\* the steps of send_transaction happen in their order, on the filled-in sender
SendOrder(s) ==
    /\ \A i, j \in 1..Len(s.log) :
          (i < j /\ s.log[i].ev = "req" /\ s.log[j].ev = "req")
              => StepRank(s.log[i]) < StepRank(s.log[j])
    /\ \A i \in ReqsOf(s, "eth_estimateGas") \cup ReqsOf(s, "eth_sendTransaction") :
          s.log[i].params[1].from = FilledFrom(s)
    /\ (s.pc = "done" /\ IsOk(s.ret)) <=>
          (/\ Len(s.log) > 0
           /\ IsResp(s.log[Len(s.log)], "eth_sendTransaction")
           /\ IsOk(s.log[Len(s.log)].result))

\* a failed step ends the operation with an error result
SendFailureReturned(s) ==
    /\ EndsInTransportFailure(s) =>
          /\ s.pc = "done"
          /\ s.ret = Err(JsonRpcClientError(s.log[Len(s.log)].result.err))
    /\ EndsInZeroResolver(s) =>
          /\ s.pc = "done"
          /\ s.ret = Err(EnsError(s.arg.to.val.name))
    /\ EndsInUndecodable(s) => (s.pc = "done" /\ IsErr(s.ret))

(***************************************************************************)
(* C3: send_transaction fills the sender, estimates the gas, resolves the  *)
(* recipient, submits and wraps the hash, in that order; when the          *)
(* estimate, the resolution or the submission fails, the operation         *)
(* returns that step's error, sends nothing more and returns no            *)
(* PendingTransaction.                                                     *)
(***************************************************************************)
C3_StepsInOrderFailureReturned ==
    \A t \in SendTasks : SendOrder(task[t]) /\ SendFailureReturned(task[t])

\* the same without the resolution's answers that cannot be decoded
C3_OrderAndFailureOfDecodableAnswers ==
    \A t \in SendTasks :
        /\ SendOrder(task[t])
        /\ ~EndsInUndecodable(task[t]) => SendFailureReturned(task[t])

ResolveTasks == {t \in Tasks : task[t].op \in {"resolve_name", "lookup_address"}}

\* the name a resolve_name or lookup_address asks the registry for
AskedName(s) == IF s.op = "lookup_address" THEN reverse_address(s.arg) ELSE s.arg

C5_UndecodableIsAnError ==
    \A t \in ResolveTasks :
        LET s == task[t]
        IN /\ s.pc # "panicked"
           /\ EndsInUndecodable(s) =>
                 (s.pc = "done" /\ IsErr(s.ret) /\ s.ret.err.kind # "EnsError")

PendingTasks == {t \in Tasks : task[t].op = "pending_transaction"}

\* the positions of the non-null receipts in the task's trace
NonNullReceipts(s) ==
    {i \in 1..Len(s.log) :
        /\ IsResp(s.log[i], "eth_getTransactionReceipt")
        /\ IsOk(s.log[i].result)
        /\ s.log[i].result.val # None}

Min(S) == CHOOSE i \in S : \A j \in S : i <= j

Resolved(s) == s.pc = "done" /\ IsOk(s.ret)

(***************************************************************************)
(* C6: the PendingTransaction send_transaction returns holds the hash the  *)
(* submit call returned, before any receipt request is made; it is not     *)
(* resolved while every receipt answer was null, and it resolves to the    *)
(* first non-null receipt answered for that hash.                          *)
(***************************************************************************)
C6_HashExposedFirstReceiptResolves ==
    /\ \A t \in SendTasks :
          LET s == task[t]
          IN Resolved(s) =>
                /\ s.ret.val.tx_hash = s.log[Len(s.log)].result.val
                /\ ReqsOf(s, "eth_getTransactionReceipt") = {}
    /\ \A t \in PendingTasks :
          LET s == task[t]
          IN /\ \A i \in ReqsOf(s, "eth_getTransactionReceipt") :
                   s.log[i].params = <<s.arg.tx_hash>>
             /\ Resolved(s) =>
                   /\ NonNullReceipts(s) # {}
                   /\ s.ret = Ok(s.log[Min(NonNullReceipts(s))].result.val.val)
                   /\ s.ret.val.transaction_hash = s.arg.tx_hash

\* a pending transaction resolved after a null receipt
C6_Witness ==
    \E t \in PendingTasks :
        /\ Resolved(task[t])
        /\ NullPolls(task[t]) >= 1
        /\ task[t].arg.tx_hash = "h2"

\* the interval the provider is configured with, or the default
ConfiguredInterval ==
    IF provider.interval = None THEN DEFAULT_POLL_INTERVAL ELSE provider.interval.val

(***************************************************************************)
(* C7: a pending transaction whose receipt request is answered null k      *)
(* times and then with a receipt is Confirmed after exactly k null polls   *)
(* and one successful poll, sleeps the configured interval once after each *)
(* null poll, requests nothing after it resolved, and is resolved exactly  *)
(* when a non-null receipt was answered; no k ends the polling.            *)
(***************************************************************************)
C7_PollsUntilReceipt ==
    \A t \in PendingTasks :
        LET s == task[t]
            n == Len(s.log)
        IN /\ \A i \in 1..n :
                 /\ i % 3 = 1 => IsReq(s.log[i], "eth_getTransactionReceipt")
                 /\ i % 3 = 2 => IsResp(s.log[i], "eth_getTransactionReceipt")
                 /\ i % 3 = 0 => /\ s.log[i] = SleepEv(ConfiguredInterval)
                                 /\ IsNullReceipt(s.log[i - 1])
                 /\ IsNullReceipt(s.log[i]) => (i < n /\ s.log[i + 1].ev = "sleep")
                 /\ (s.log[i].ev = "resp" /\ ~IsNullReceipt(s.log[i])) =>
                        (i = n /\ s.pc = "done")
           /\ Resolved(s) <=> NonNullReceipts(s) # {}
           /\ Resolved(s) =>
                 /\ n = 3 * NullPolls(s) + 2
                 /\ Cardinality(ReqsOf(s, "eth_getTransactionReceipt")) = NullPolls(s) + 1
                 /\ Cardinality({i \in 1..n : s.log[i].ev = "sleep"}) = NullPolls(s)
           \* as long as the answers are null the loop goes on
           /\ (n > 0 /\ NonNullReceipts(s) = {} /\ ~EndsInTransportFailure(s)) =>
                 s.pc \in {"pending_get_receipt", "pending_sleep"}

\* three null receipts, then a receipt, on a provider with a configured interval
C7_Witness ==
    \E t \in PendingTasks :
        /\ Resolved(task[t])
        /\ NullPolls(task[t]) = 3
        /\ provider.interval # None

(***************************************************************************)
(* C8: every request of the dispatcher is one call of the transport, never *)
(* repeated: a failed call ends the operation with JsonRpcClientError      *)
(* wrapping the transport's error (which is_signer, whose result is a      *)
(* bool, turns into false) and nothing is sent after it; a call that       *)
(* succeeds gives the transport's value.                                   *)
(***************************************************************************)
C8_OneCallNoRetry ==
    \A t \in Tasks :
        LET s == task[t]
            n == Len(s.log)
        IN /\ \A i \in 1..n :
                 /\ s.log[i].ev = "resp" =>
                       (i > 1 /\ IsReq(s.log[i - 1], s.log[i].method))
                 /\ (s.log[i].ev = "req" /\ i < n) => IsResp(s.log[i + 1], s.log[i].method)
                 /\ (s.log[i].ev = "resp" /\ IsErr(s.log[i].result)) =>
                       /\ i = n
                       /\ s.pc = "done"
                       /\ IF s.op = "is_signer" THEN s.ret = FALSE
                          ELSE s.ret = Err(JsonRpcClientError(s.log[i].result.err))
           /\ s.op = "get_block_number" =>
                 /\ Cardinality(ReqsOf(s, "eth_blockNumber")) = 1
                 /\ s.pc = "done" =>
                       /\ n = 2
                       /\ IsOk(s.log[2].result) => s.ret = Ok(s.log[2].result.val)

\* the one call of a get_block_number failed
C8_Witness ==
    \E t \in Tasks :
        /\ task[t].op = "get_block_number"
        /\ task[t].pc = "done"
        /\ IsErr(task[t].ret)

(***************************************************************************)
(* The number a text or an H256 stands for, as its hex digits without      *)
(* leading zeros                                                           *)
(***************************************************************************)
RECURSIVE StripZeros(_)
StripZeros(d) == IF d # <<>> /\ d[1] = 0 THEN StripZeros(Tail(d)) ELSE d

Nibbles(bytes) ==
    [i \in 1..(2 * Len(bytes)) |->
        IF i % 2 = 1 THEN bytes[(i + 1) \div 2] \div 16 ELSE bytes[i \div 2] % 16]

\* the text without its 0x prefix
Unprefixed(text) ==
    IF Len(text) >= 2 /\ text[1] = "0" /\ text[2] = "x" THEN SubSeq(text, 3, Len(text))
    ELSE text

AllHex(text) == \A i \in 1..Len(text) : IsHexChar(text[i])

Digits(text) == [i \in 1..Len(text) |-> HexVal(text[i])]

StorageTasks == {t \in Tasks : task[t].op = "get_storage_at"}

\* the task has the node's answer to eth_getStorageAt
HasStorageText(s) ==
    /\ Len(s.log) > 0
    /\ IsResp(s.log[Len(s.log)], "eth_getStorageAt")
    /\ IsOk(s.log[Len(s.log)].result)

StorageText(s) == s.log[Len(s.log)].result.val

(***************************************************************************)
(* C9: for every returned storage text of at most 32 bytes (64 hex digits, *)
(* an odd number of digits and no digit included), get_storage_at returns  *)
(* a value of exactly 32 bytes whose number is the returned text's.        *)
(***************************************************************************)
C9_StoragePaddedTo32Bytes ==
    \A t \in StorageTasks :
        LET s == task[t]
        IN (/\ HasStorageText(s)
            /\ AllHex(Unprefixed(StorageText(s)))
            /\ Len(Unprefixed(StorageText(s))) <= 64)
           => /\ s.pc = "done"
              /\ IsOk(s.ret)
              /\ Len(s.ret.val) = 32
              /\ StripZeros(Nibbles(s.ret.val)) =
                    StripZeros(Digits(Unprefixed(StorageText(s))))

\* a storage text of an odd number of digits, not zero, was returned
C9_Witness ==
    \E t \in StorageTasks :
        /\ HasStorageText(task[t])
        /\ StorageText(task[t]) = <<"0", "x", "a">>
        /\ task[t].pc = "done"

(***************************************************************************)
(* C10: every operation ends with its value or with a ProviderError,       *)
(* whatever the transport answers; get_storage_at returns a ProviderError  *)
(* and does not panic when the text is longer than 64 hex digits or holds  *)
(* a character that is no hex digit.                                       *)
(***************************************************************************)
C10_LongTextIsError ==
    \A t \in StorageTasks :
        LET s == task[t]
        IN (/\ HasStorageText(s)
            /\ AllHex(Unprefixed(StorageText(s)))
            /\ Len(Unprefixed(StorageText(s))) > 64)
           => (s.pc = "done" /\ IsErr(s.ret))

\* the same for a text that holds a character that is no hex digit
C10_NonHexTextIsError ==
    \A t \in StorageTasks :
        LET s == task[t]
        IN (HasStorageText(s) /\ ~AllHex(Unprefixed(StorageText(s))))
           => (s.pc = "done" /\ IsErr(s.ret))

\* what the code does with such a text: an error, a panic, or a value when the
\* only characters that are no hex digits are those of inner "0x"
C10_BadTextOutcomes ==
    \A t \in StorageTasks :
        LET s == task[t]
        IN (/\ HasStorageText(s)
            /\ \/ ~AllHex(Unprefixed(StorageText(s)))
               \/ Len(Unprefixed(StorageText(s))) > 64)
           => \/ s.pc = "done" /\ IsErr(s.ret) /\ s.ret.err.kind = "HexError"
              \/ s.pc = "panicked" /\ Len(replace_0x(StorageText(s))) > 64
              \/ /\ s.pc = "done" /\ IsOk(s.ret)
                 /\ AllHex(replace_0x(StorageText(s)))
                 /\ Len(replace_0x(StorageText(s))) <= 64


AccountOps == {"get_transaction_count", "get_balance", "get_storage_at", "get_code"}

AccountTasks == {t \in Tasks : task[t].op \in AccountOps}

\* the RPC call the operation is named after
UnderlyingMethod(o) == IF o = "get_storage_at" THEN "eth_getStorageAt" ELSE AccountMethod(o)

\* a name is resolved before the call, which carries the resolved address; an
\* address makes no resolution call
AccountResolvedFirst(s) ==
    LET under == ReqsOf(s, UnderlyingMethod(s.op))
        calls == ReqsOf(s, "eth_call")
    IN IF s.arg.tag = "Name"
       THEN /\ \A j \in under :
                  /\ j = 5
                  /\ IsCall(s.log[1], RESOLVER_SELECTOR)
                  /\ s.log[1].params[1].data.val.node = s.arg.name
                  /\ IsOk(s.log[2].result)
                  /\ IsCall(s.log[3], ADDR_SELECTOR)
                  /\ s.log[3].params[1].data.val.node = s.arg.name
                  /\ IsOk(s.log[4].result)
                  /\ s.log[j].params[1] = s.log[4].result.val[1]
            /\ Cardinality(calls) \in 1..2
            /\ Cardinality(under) <= 1
       ELSE /\ calls = {}
            /\ under = {1}
            /\ s.log[1].params[1] = s.arg.addr

\* a failed resolution is the operation's error result
AccountFailureReturned(s) ==
    /\ (EndsInTransportFailure(s) /\ s.log[Len(s.log)].method = "eth_call") =>
          /\ s.pc = "done"
          /\ s.ret = Err(JsonRpcClientError(s.log[Len(s.log)].result.err))
    /\ EndsInZeroResolver(s) => (s.pc = "done" /\ s.ret = Err(EnsError(s.arg.name)))
    /\ EndsInUndecodable(s) => (s.pc = "done" /\ IsErr(s.ret))

(***************************************************************************)
(* C11: get_transaction_count, get_balance, get_storage_at and get_code    *)
(* resolve a name argument before the RPC call, which carries the resolved *)
(* address; a failed resolution is returned as the operation's error and   *)
(* the RPC call is not sent; an address argument makes no resolution call. *)
(***************************************************************************)
C11_NameResolvedBeforeCall ==
    \A t \in AccountTasks : AccountResolvedFirst(task[t]) /\ AccountFailureReturned(task[t])

\* the same without the resolution's answers that cannot be decoded
C11_ResolvedBeforeCallOfDecodableAnswers ==
    \A t \in AccountTasks :
        /\ AccountResolvedFirst(task[t])
        /\ ~EndsInUndecodable(task[t]) => AccountFailureReturned(task[t])

\* a balance was asked for a name and the call was sent
C11_Reached ==
    \E t \in AccountTasks :
        /\ task[t].op = "get_balance"
        /\ task[t].arg.tag = "Name"
        /\ ReqsOf(task[t], "eth_getBalance") # {}


WatcherTasks == {t \in Tasks : task[t].op = "filter_watcher"}

SubscriptionTasks == {t \in Tasks : task[t].op = "subscription_stream"}

\* what one event of a stream's trace brought: a poll's batch, a pushed item
Brought(e) ==
    IF e.ev = "push" THEN <<e.item>>
    ELSE IF IsResp(e, "eth_getFilterChanges") /\ IsOk(e.result) THEN e.result.val
    ELSE <<>>

RECURSIVE ReturnedUpTo(_, _)
ReturnedUpTo(s, n) == IF n = 0 THEN <<>> ELSE ReturnedUpTo(s, n - 1) \o Brought(s.log[n])

\* every item the node returned or pushed to the stream so far, in its order
Returned(s) == ReturnedUpTo(s, Len(s.log))

(***************************************************************************)
(* C12: a filter watcher, and a subscription stream, yields the items in   *)
(* the order the node returned or pushed them, within a batch and across   *)
(* batches: what it has yielded, followed by what it still holds, is the   *)
(* sequence the node gave, none reordered, duplicated or dropped.          *)
(***************************************************************************)
C12_YieldedInServerOrder ==
    \A t \in WatcherTasks \cup SubscriptionTasks :
        task[t].yielded \o task[t].items = Returned(task[t])

\* a watcher has yielded the two different items of one batch and an item
\* of the next batch
C12_Witness ==
    \E t \in WatcherTasks :
        /\ Len(task[t].yielded) >= 3
        /\ task[t].yielded[1] # task[t].yielded[2]
        /\ Polls(task[t]) = 2

\* a subscription stream has yielded two different pushed items
C12_SubscriptionReached ==
    \E t \in SubscriptionTasks :
        /\ Len(task[t].yielded) >= 2
        /\ task[t].yielded[1] # task[t].yielded[2]


\* a request of the method is in the trace of this operation only
SentOnlyBy(m, o) == \A t \in Tasks : ReqsOf(task[t], m) # {} => task[t].op = o

\* this step drops the stream or the wait task t runs
Dropped(t) == task[t].op \in StreamOps /\ task'[t].op # task[t].op

\* this step sends a request of task t
Sends(t) ==
    /\ task'[t].log # <<>>
    /\ task'[t].log[Len(task'[t].log)].ev = "req"
    /\ task'[t].log # task[t].log

\* this step is an explicit uninstall_filter(id) answered true by the node
Uninstalled(id) ==
    \E t \in Tasks :
        /\ task[t].op = "uninstall_filter"
        /\ task[t].pc = "uninstall_filter"
        /\ LastReq(task[t]) = ReqEv("eth_uninstallFilter", <<id>>)
        /\ task'[t].ret = Ok(TRUE)

\* this step is an explicit unsubscribe(id) answered true by the node
Unsubscribed(id) ==
    \E t \in Tasks :
        /\ task[t].op = "unsubscribe"
        /\ task[t].pc = "unsubscribe"
        /\ LastReq(task[t]) = ReqEv("eth_unsubscribe", <<id>>)
        /\ task'[t].ret = Ok(TRUE)

DropLeavesNodeState ==
    /\ \A t \in Tasks : Dropped(t) => (server' = server /\ ~Sends(t))
    /\ \A t \in Tasks :
          Sends(t) =>
             /\ LastReq(task'[t]).method = "eth_getFilterChanges" =>
                   (task'[t].op = "filter_watcher" /\ task'[t].pc = "watcher_get_changes")
             /\ LastReq(task'[t]).method = "eth_getTransactionReceipt" =>
                   (task'[t].op = "pending_transaction" /\ task'[t].pc = "pending_get_receipt")
    /\ SentOnlyBy("eth_uninstallFilter", "uninstall_filter")'
    /\ SentOnlyBy("eth_unsubscribe", "unsubscribe")'
    /\ \A id \in server.filters \ server'.filters : Uninstalled(id)
    /\ \A id \in server.subs \ server'.subs : Unsubscribed(id)

(***************************************************************************)
(* C13: dropping a filter watcher, a subscription stream or a pending-     *)
(* transaction wait sends nothing more and leaves the node's filters and   *)
(* subscriptions as they are: eth_uninstallFilter is sent only by          *)
(* uninstall_filter and eth_unsubscribe only by unsubscribe, and a filter  *)
(* or subscription leaves the node only by that explicit call.             *)
(***************************************************************************)
C13_DropLeavesFilterInstalled == [][DropLeavesNodeState]_vars

\* a watcher and a subscription stream were dropped, every caller is idle,
\* and the filter and the subscription are still installed
C13_Witness ==
    /\ \A t \in Tasks : task[t].pc = "idle"
    /\ server.filters # {}
    /\ server.subs # {}


SignerTasks == {t \in Tasks : task[t].op = "is_signer"}

\* the text is a signature: 130 hex digits after at most one leading 0x
IsSignatureText(text) ==
    /\ Len(Unprefixed(text)) = 2 * SignatureLen
    /\ AllHex(Unprefixed(text))

(***************************************************************************)
(* C14: without a default sender is_signer returns false and sends         *)
(* nothing; with a default sender it sends exactly one eth_sign request,   *)
(* for empty data from that sender, and returns true exactly when that     *)
(* sign succeeds: the call was answered and the text is a signature.       *)
(***************************************************************************)
C14_IsSignerIsOneSignOfNothing ==
    \A t \in SignerTasks :
        LET s == task[t]
        IN IF provider.sender = None
           THEN s.pc = "done" /\ s.log = <<>> /\ s.ret = FALSE
           ELSE /\ s.pc \in {"sign", "done"}
                /\ Len(s.log) = IF s.pc = "done" THEN 2 ELSE 1
                /\ s.log[1] = ReqEv("eth_sign", <<provider.sender.val, <<>>>>)
                /\ s.pc = "done" =>
                      /\ IsResp(s.log[2], "eth_sign")
                      /\ s.ret = (/\ IsOk(s.log[2].result)
                                  /\ IsSignatureText(s.log[2].result.val))

\* is_signer returned true for a sender
C14_Witness ==
    \E t \in SignerTasks : task[t].pc = "done" /\ task[t].log # <<>> /\ task[t].ret = TRUE

\* is_signer returned false without a sender, and false for a text that is no signature
C14_FalseWithoutSender ==
    \E t \in SignerTasks : task[t].pc = "done" /\ task[t].log = <<>> /\ task[t].ret = FALSE

C14_FalseForBadText ==
    \E t \in SignerTasks :
        /\ task[t].pc = "done"
        /\ Len(task[t].log) = 2
        /\ IsOk(task[t].log[2].result)
        /\ task[t].ret = FALSE


SignTasks == {t \in Tasks : task[t].op = "sign"}

\* the task has the node's text in answer to eth_sign
HasSignText(s) ==
    /\ Len(s.log) = 2
    /\ IsResp(s.log[2], "eth_sign")
    /\ IsOk(s.log[2].result)

SignText(s) == s.log[2].result.val

\* the text, less one leading 0x, is a whole number of bytes in hex
IsHexText(text) == Len(Unprefixed(text)) % 2 = 0 /\ AllHex(Unprefixed(text))

\* the result is the signature whose 65 bytes the text, less one leading 0x, spells
SignatureOfText(s) ==
    /\ s.pc = "done"
    /\ IsOk(s.ret)
    /\ Nibbles(s.ret.val.r \o s.ret.val.s \o <<s.ret.val.v>>) = Digits(Unprefixed(SignText(s)))

\* the operation failed with an error of the kind
FailedWith(s, kind) == s.pc = "done" /\ IsErr(s.ret) /\ s.ret.err.kind = kind

(***************************************************************************)
(* C15: sign removes at most one leading "0x" from the text eth_sign       *)
(* returned and hex-decodes the rest into the 65-byte signature; whenever  *)
(* the text is no signature (not valid hex, or not of that length) the     *)
(* operation fails with a Custom error carrying the decode message.        *)
(***************************************************************************)
C15_MalformedIsCustomError ==
    \A t \in SignTasks :
        HasSignText(task[t]) =>
            IF IsSignatureText(SignText(task[t])) THEN SignatureOfText(task[t])
            ELSE FailedWith(task[t], "CustomError")

\* C15 as the code has it: a text that is not valid hex (a character that
\* is no hex digit, among them the x of a second "0x", or an odd number of
\* digits) fails with HexError; valid hex that is not 65 bytes long fails
\* with a Custom error carrying the length error; 130 hex digits give the
\* signature
C15_MalformedIsHexOrCustomError ==
    \A t \in SignTasks :
        HasSignText(task[t]) =>
            IF IsSignatureText(SignText(task[t])) THEN SignatureOfText(task[t])
            ELSE IF IsHexText(SignText(task[t]))
                 THEN /\ FailedWith(task[t], "CustomError")
                      /\ task[t].ret.err.inner.error = "InvalidLength"
                      /\ task[t].ret.err.inner.got = Len(Unprefixed(SignText(task[t]))) \div 2
            ELSE FailedWith(task[t], "HexError")

\* a text of valid hex and the wrong length failed with a Custom error
C15_Witness ==
    \E t \in SignTasks :
        /\ HasSignText(task[t])
        /\ Len(SignText(task[t])) > 2
        /\ FailedWith(task[t], "CustomError")

\* a text that begins with two 0x prefixes failed with HexError
C15_SecondPrefixIsHexError ==
    \E t \in SignTasks :
        /\ HasSignText(task[t])
        /\ Len(SignText(task[t])) >= 4
        /\ SubSeq(SignText(task[t]), 1, 4) = <<"0", "x", "0", "x">>
        /\ FailedWith(task[t], "HexError")

\* a text of 130 hex digits gave its signature
C15_SignatureReached ==
    \E t \in SignTasks : HasSignText(task[t]) /\ IsOk(task[t].ret)


RawTasks == {t \in Tasks : task[t].op = "send_raw_transaction"}

(***************************************************************************)
(* C16: send_raw_transaction sends exactly one request, the                *)
(* eth_sendRawTransaction of the serialized signed transaction as it was   *)
(* given: no eth_estimateGas, no eth_call of a name resolution, and the    *)
(* default sender is not applied; when the node answers a hash the result  *)
(* is a PendingTransaction of that hash with the provider's poll interval, *)
(* the configured one or the default.                                      *)
(***************************************************************************)
C16_RawIsOneSubmit ==
    \A t \in RawTasks :
        LET s == task[t]
        IN /\ s.pc \in {"send_raw_transaction", "done"}
           /\ Len(s.log) = IF s.pc = "done" THEN 2 ELSE 1
           /\ s.log[1] = ReqEv("eth_sendRawTransaction", <<[rlp |-> s.arg]>>)
           /\ s.pc = "done" =>
                 /\ IsResp(s.log[2], "eth_sendRawTransaction")
                 /\ IF IsOk(s.log[2].result)
                    THEN s.ret = Ok([tx_hash |-> s.log[2].result.val,
                                     interval |-> ConfiguredInterval])
                    ELSE s.ret = Err(JsonRpcClientError(s.log[2].result.err))

\* a provider with a default sender and a configured interval submitted the
\* transaction another account signed, and the node answered with a hash
C16_Witness ==
    \E t \in RawTasks :
        /\ task[t].pc = "done"
        /\ IsOk(task[t].ret)
        /\ provider.sender # None
        /\ provider.sender.val # task[t].arg.from
        /\ provider.interval # None
        /\ task[t].ret.val.tx_hash = "h2"


\* the tasks that resolve a name, whatever the operation
ResolvingTasks == {t \in Tasks : ReqsOf(task[t], "eth_call") # {}}

\* the name the operation has to resolve
NameToResolve(s) ==
    CASE s.op = "resolve_name" -> s.arg
      [] s.op = "lookup_address" -> reverse_address(s.arg)
      [] s.op = "send_transaction" -> s.arg.to.val.name
      [] OTHER -> s.arg.name

\* the registry the provider is configured with, or the default one
ConfiguredRegistry == IF provider.ens = None THEN ENS_ADDRESS ELSE provider.ens.val

\* the selector of the direction: a name of an address, or an address of a name
DirectionSelector(s) == IF s.op = "lookup_address" THEN NAME_SELECTOR ELSE ADDR_SELECTOR

\* the eth_call at position i of the trace: whom it calls, and what for
CallTarget(s, i) == s.log[i].params[1].to
CallData(s, i) == s.log[i].params[1].data.val

TwoHops(s) ==
    LET calls == ReqsOf(s, "eth_call")
        first == Min(calls)
    IN /\ Cardinality(calls) <= 2
       /\ CallTarget(s, first) = Some(Address(ConfiguredRegistry))
       /\ CallData(s, first) = [selector |-> RESOLVER_SELECTOR, node |-> NameToResolve(s)]
       /\ \A j \in calls \ {first} :
             /\ j = first + 2
             /\ IsResp(s.log[first + 1], "eth_call")
             /\ IsOk(s.log[first + 1].result)
             /\ Len(s.log[first + 1].result.val) >= 1
             /\ s.log[first + 1].result.val[1] # ZeroAddress
             /\ CallTarget(s, j) = Some(Address(s.log[first + 1].result.val[1]))
             /\ CallData(s, j) = [selector |-> DirectionSelector(s),
                                  node |-> NameToResolve(s)]
       /\ \A j \in calls :
             (j < Len(s.log) /\ IsErr(s.log[j + 1].result)) =>
                 /\ j + 1 = Len(s.log)
                 /\ s.pc = "done"
                 /\ s.ret = Err(JsonRpcClientError(s.log[j + 1].result.err))

(***************************************************************************)
(* C17: a name resolution is two hops in order.  The first eth_call asks   *)
(* the registry, the override if one is configured and the default if not, *)
(* for the resolver of the name; the second eth_call is sent only after    *)
(* the first returned a resolver that is not zero, goes to exactly that    *)
(* resolver, with the same name and the selector of the direction (addr    *)
(* for resolve_name, name for lookup_address); a transport failure of      *)
(* either hop is the operation's error and nothing is sent after it.       *)
(***************************************************************************)
C17_TwoHopsInOrder == \A t \in ResolvingTasks : TwoHops(task[t])

\* a lookup_address over an overridden registry made both hops
C17_Witness ==
    \E t \in ResolvingTasks :
        /\ task[t].op = "lookup_address"
        /\ provider.ens # None
        /\ Cardinality(ReqsOf(task[t], "eth_call")) = 2
        /\ task[t].pc = "done"

\* the second hop of a resolve_name failed in the transport
C17_SecondHopFailed ==
    \E t \in ResolvingTasks :
        /\ task[t].op = "resolve_name"
        /\ Len(task[t].log) = 4
        /\ IsErr(task[t].log[4].result)


ConcOps == {"send_transaction", "get_block_number"}

\* the call of the operation, run alone: up to its first await
StartAlone(s) ==
    IF s.op = "send_transaction"
    THEN send_transaction(StartCall("send_transaction", s.arg), s.arg)
    ELSE get_block_number(StartCall("get_block_number", None))

\* the step the operation, suspended in st, takes when it is answered r
StepAlone(st, r) ==
    CASE st.pc = "send_transaction_estimate" -> send_transaction_estimated(Received(st, r), r)
      [] st.pc = "query_resolver_registry" -> query_resolver_registry(Received(st, r), r)
      [] st.pc = "query_resolver_resolve" -> query_resolver_resolve(Received(st, r), r)
      [] st.pc = "send_transaction_submit" -> send_transaction_wrap(Received(st, r), r)
      [] st.pc = "get_block_number" -> request_return(Received(st, r), r)
      [] OTHER -> st

\* the operation of s run alone against the answers in the first n events of
\* the trace of s
RECURSIVE RunAlone(_, _)
RunAlone(s, n) ==
    IF n <= 1 THEN StartAlone(s)
    ELSE IF s.log[n].ev = "resp" THEN StepAlone(RunAlone(s, n - 1), s.log[n].result)
    ELSE RunAlone(s, n - 1)

\* every answer in the trace is an answer to the request before it, its own
OwnResponses(s) ==
    \A i \in 1..Len(s.log) :
        s.log[i].ev = "resp" =>
            /\ i > 1
            /\ IsReq(s.log[i - 1], s.log[i].method)
            /\ s.log[i].result \in Responses(s.log[i - 1].method, s.log[i - 1].params)

\* a send_transaction that returned a PendingTransaction wrapped the hash of
\* its own submit
OwnHash(s) ==
    (s.op = "send_transaction" /\ s.pc = "done" /\ IsOk(s.ret)) =>
        /\ IsResp(s.log[Len(s.log)], "eth_sendTransaction")
        /\ s.ret.val.tx_hash = s.log[Len(s.log)].result.val

\* the state of every running call is its own
EachRunsAsAlone ==
    \A t \in Tasks :
        task[t].op \in ConcOps =>
            /\ OwnResponses(task[t])
            /\ task[t] = RunAlone(task[t], Len(task[t].log))
            /\ OwnHash(task[t])
            /\ task[t].op = "send_transaction" => SendOrder(task[t])

\* a step is a step of one task, and the configuration of a provider in use
\* stays as it is
OneTaskSteps ==
    /\ \A t, u \in Tasks : (t # u /\ task'[t] # task[t]) => task'[u] = task[u]
    /\ shared => provider' = provider
    /\ shared => shared'

(***************************************************************************)
(* C18: when several operations (two send_transaction calls, say) run      *)
(* concurrently over one shared Provider and interleave at their await     *)
(* points in any order, each receives the answers to its own requests and  *)
(* has the result it has when run alone against those answers: each        *)
(* send_transaction wraps the hash of its own submit and keeps its own     *)
(* order of steps; and the Provider's configuration does not change.       *)
(***************************************************************************)
C18_ConcurrentCallsRunAsAlone == []EachRunsAsAlone /\ [][OneTaskSteps]_vars

\* two send_transaction calls are suspended at once, one at its submit after
\* an estimate, the other at the second hop of its resolution
C18_Witness ==
    /\ task["t1"].op = "send_transaction"
    /\ task["t1"].pc = "send_transaction_submit"
    /\ Len(task["t1"].log) = 3
    /\ task["t2"].op = "send_transaction"
    /\ task["t2"].pc = "query_resolver_resolve"

\* two send_transaction calls have returned, each with another hash
C18_BothWrapped ==
    /\ \A t \in Tasks : task[t].op = "send_transaction" /\ task[t].pc = "done" /\ IsOk(task[t].ret)
    /\ task["t1"].ret.val.tx_hash # task["t2"].ret.val.tx_hash

====
